---- MODULE Spec2Model ----
(***************************************************************************)
(* Model of tabpy.cnv: the CNV parser (CategorySet.from_cnv_file), the     *)
(* Category tree it builds and the code lookups on it.                     *)
(*                                                                         *)
(* Text is a sequence of one-character strings.  A Code is a record        *)
(* [t, n, s]: t = "int" with the value n, or t = "str" with the text s.    *)
(* A range is [start, end] of two Codes of one kind (IntRange / StrRange). *)
(* A Python exception is the name of its class in the place of a result.   *)
(***************************************************************************)
EXTENDS Integers, Sequences, FiniteSets, TLC

VARIABLES pc, header, lines, category_set, res, probe, token, token_res

vars == <<pc, header, lines, category_set, res, probe, token, token_res>>

(***************************************************************************)
(* Bounds of the model                                                     *)
(***************************************************************************)
MaxStrLen == 2

MaxLines == 3

MaxHeaderLen == 6

MaxTokenLen == 3

(***************************************************************************)
(* Text primitives (Python str)                                            *)
(***************************************************************************)
\* ord(c) for the characters the model uses
CharOrd(c) ==
  CASE c = " " -> 32
    [] c = "," -> 44
    [] c = "-" -> 45
    [] c = "0" -> 48
    [] c = "1" -> 49
    [] c = "2" -> 50
    [] c = "3" -> 51
    [] c = "4" -> 52
    [] c = "5" -> 53
    [] c = "6" -> 54
    [] c = "7" -> 55
    [] c = "8" -> 56
    [] c = "9" -> 57
    [] c = ";" -> 59
    [] c = "A" -> 65
    [] c = "B" -> 66
    [] c = "L" -> 76
    [] c = "X" -> 88

IsDigit(c) == c \in {"0", "1", "2", "3", "4", "5", "6", "7", "8", "9"}

IsSpace(c) == c = " "

DigitVal(c) == CharOrd(c) - 48

\* a <= b on str: compare code points left to right, a proper prefix is smaller
RECURSIVE StrLe(_, _)
StrLe(a, b) ==
  IF a = <<>> THEN TRUE
  ELSE IF b = <<>> THEN FALSE
  ELSE IF CharOrd(Head(a)) < CharOrd(Head(b)) THEN TRUE
  ELSE IF CharOrd(Head(a)) > CharOrd(Head(b)) THEN FALSE
  ELSE StrLe(Tail(a), Tail(b))

Min(a, b) == IF a <= b THEN a ELSE b

Max(a, b) == IF a >= b THEN a ELSE b

(***************************************************************************)
(* Codes and ranges                                                        *)
(***************************************************************************)
IntCode(n) == [t |-> "int", n |-> n, s |-> <<>>]

StrCode(s) == [t |-> "str", n |-> 0, s |-> s]

MkRange(a, b) == [start |-> a, end |-> b]

\* IntRange.__contains__: start <= item <= end; comparing int with str raises
IntRange_contains(r, item) ==
  IF item.t # "int" THEN "TypeError"
  ELSE IF r.start.n <= item.n /\ item.n <= r.end.n THEN "True" ELSE "False"

\* a containment test without the length guard
StrRange_contains_nolen(r, item) ==
  IF item.t # "str" THEN "TypeError"
  ELSE IF StrLe(r.start.s, item.s) /\ StrLe(item.s, r.end.s) THEN "True" ELSE "False"

\* StrRange.__contains__: len(item) of an int raises
StrRange_contains(r, item) ==
  IF item.t # "str" THEN "TypeError"
  ELSE LET min_len == Min(Len(r.start.s), Len(r.end.s))
           max_len == Max(Len(r.start.s), Len(r.end.s))
       IN IF /\ min_len <= Len(item.s) /\ Len(item.s) <= max_len
             /\ StrLe(r.start.s, item.s) /\ StrLe(item.s, r.end.s)
          THEN "True" ELSE "False"

\* item in x for a CodeRange x
Range_contains(r, item) ==
  IF r.start.t = "int" THEN IntRange_contains(r, item) ELSE StrRange_contains(r, item)

(***************************************************************************)
(* More text primitives: strip, int(), split                               *)
(***************************************************************************)
RECURSIVE LStrip(_)
LStrip(s) == IF s # <<>> /\ IsSpace(Head(s)) THEN LStrip(Tail(s)) ELSE s

RECURSIVE RStrip(_)
RStrip(s) ==
  IF s # <<>> /\ IsSpace(s[Len(s)]) THEN RStrip(SubSeq(s, 1, Len(s) - 1)) ELSE s

Strip(s) == LStrip(RStrip(s))

AllDigits(s) == s # <<>> /\ \A i \in 1..Len(s) : IsDigit(s[i])

RECURSIVE DigitsVal(_)
DigitsVal(s) ==
  IF s = <<>> THEN 0 ELSE 10 * DigitsVal(SubSeq(s, 1, Len(s) - 1)) + DigitVal(s[Len(s)])

\* int(val): surrounding whitespace and a sign are accepted; [ok, n]
PyInt(val) ==
  LET v == Strip(val)
  IN IF AllDigits(v) THEN [ok |-> TRUE, n |-> DigitsVal(v)]
     ELSE IF v # <<>> /\ Head(v) = "-" /\ AllDigits(Tail(v))
          THEN [ok |-> TRUE, n |-> 0 - DigitsVal(Tail(v))]
          ELSE [ok |-> FALSE, n |-> 0]

\* the absent value of an Optional[int] (no column of a line can hold it)
None == -1000

\* int_or_none(val): [ok, n] with n = None for a blank column
int_or_none(val) ==
  IF Strip(val) = <<>> THEN [ok |-> TRUE, n |-> None] ELSE PyInt(Strip(val))

\* s.split(sep): the pieces between the separators, empty pieces included
RECURSIVE Split(_, _)
Split(s, sep) ==
  IF \A i \in 1..Len(s) : s[i] # sep THEN <<s>>
  ELSE LET k == CHOOSE i \in 1..Len(s) : s[i] = sep /\ \A j \in 1..(i - 1) : s[j] # sep
       IN <<SubSeq(s, 1, k - 1)>> \o Split(SubSeq(s, k + 1, Len(s)), sep)

(***************************************************************************)
(* Header: reFirstLine = \s*(\d+)\s+(\d+)(?:\s(L))? matched at the start   *)
(* of the first line (re.match: nothing anchors the end of the line)       *)
(***************************************************************************)
\* first position at or after i that holds no whitespace / no digit
RECURSIVE SpacesEnd(_, _)
SpacesEnd(s, i) == IF i <= Len(s) /\ IsSpace(s[i]) THEN SpacesEnd(s, i + 1) ELSE i

RECURSIVE DigitsEnd(_, _)
DigitsEnd(s, i) == IF i <= Len(s) /\ IsDigit(s[i]) THEN DigitsEnd(s, i + 1) ELSE i

\* the match object: matched, group(1), group(2), group(3) ("" for a group that did not take part)
reFirstLine_match(line) ==
  LET i1 == SpacesEnd(line, 1)
      i2 == DigitsEnd(line, i1)
      i3 == SpacesEnd(line, i2)
      i4 == DigitsEnd(line, i3)
  IN IF i2 > i1 /\ i3 > i2 /\ i4 > i3
     THEN [matched |-> TRUE,
           g1 |-> SubSeq(line, i1, i2 - 1),
           g2 |-> SubSeq(line, i3, i4 - 1),
           g3 |-> IF i4 + 1 <= Len(line) /\ IsSpace(line[i4]) /\ line[i4 + 1] = "L"
                  THEN "L" ELSE ""]
     ELSE [matched |-> FALSE, g1 |-> <<>>, g2 |-> <<>>, g3 |-> ""]

\* from_cnv_file, the header part: [ok, n_categories, code_length, letter_codes]
ParseHeader(line) ==
  LET m == reFirstLine_match(line)
  IN IF ~m.matched
     THEN [ok |-> FALSE, n_categories |-> 0, code_length |-> 0, letter_codes |-> FALSE]
     ELSE IF m.g3 = ""
          THEN [ok |-> TRUE, n_categories |-> DigitsVal(m.g1), code_length |-> DigitsVal(m.g2),
                letter_codes |-> FALSE]
          ELSE IF m.g3 = "L"
               THEN [ok |-> TRUE, n_categories |-> DigitsVal(m.g1),
                     code_length |-> DigitsVal(m.g2), letter_codes |-> TRUE]
               ELSE [ok |-> FALSE, n_categories |-> 0, code_length |-> 0, letter_codes |-> FALSE]

(***************************************************************************)
(* Code tokens                                                             *)
(***************************************************************************)
NoDashComma(s) == s # <<>> /\ \A i \in 1..Len(s) : s[i] \notin {"-", ","}

\* the position of the "-" of a token start-end with exactly one "-", 0 otherwise
DashPos(s) ==
  IF Cardinality({i \in 1..Len(s) : s[i] = "-"}) = 1
  THEN CHOOSE i \in 1..Len(s) : s[i] = "-"
  ELSE 0

\* IntCodeRegex ^\d+$
IntCodeRegex_match(s) == AllDigits(s)

\* IntRangeRegex ^(\d+)-(\d+)$
IntRangeRegex_match(s) ==
  /\ DashPos(s) # 0
  /\ AllDigits(SubSeq(s, 1, DashPos(s) - 1))
  /\ AllDigits(SubSeq(s, DashPos(s) + 1, Len(s)))

\* StrCodeRegex ^([^-,]+)$
StrCodeRegex_match(s) == NoDashComma(s)

\* StrRangeRegex ^([^-,]+)-([^-,]+)$
StrRangeRegex_match(s) ==
  /\ DashPos(s) # 0
  /\ NoDashComma(SubSeq(s, 1, DashPos(s) - 1))
  /\ NoDashComma(SubSeq(s, DashPos(s) + 1, Len(s)))

NoCode == IntCode(0)

\* a parser that tries the numeric patterns whatever the mode
parse_category_code_numeric(item, only_strings) ==
  LET g1 == SubSeq(item, 1, DashPos(item) - 1)
      g2 == SubSeq(item, DashPos(item) + 1, Len(item))
      bad == [kind |-> "ValueError", code |-> NoCode, range |-> MkRange(NoCode, NoCode)]
  IN IF IntCodeRegex_match(item)
     THEN [bad EXCEPT !.kind = "code", !.code = IntCode(DigitsVal(item))]
     ELSE IF IntRangeRegex_match(item)
     THEN [bad EXCEPT !.kind = "range",
                      !.range = MkRange(IntCode(DigitsVal(g1)), IntCode(DigitsVal(g2)))]
     ELSE IF StrCodeRegex_match(item)
     THEN [bad EXCEPT !.kind = "code", !.code = StrCode(item)]
     ELSE IF StrRangeRegex_match(item)
     THEN [bad EXCEPT !.kind = "range", !.range = MkRange(StrCode(g1), StrCode(g2))]
     ELSE bad

\* parse_category_code: [kind, code, range], kind in code / range / ValueError
parse_category_code(item, only_strings) ==
  LET g1 == SubSeq(item, 1, DashPos(item) - 1)
      g2 == SubSeq(item, DashPos(item) + 1, Len(item))
      bad == [kind |-> "ValueError", code |-> NoCode, range |-> MkRange(NoCode, NoCode)]
  IN IF ~only_strings /\ IntCodeRegex_match(item)
     THEN [bad EXCEPT !.kind = "code", !.code = IntCode(DigitsVal(item))]
     ELSE IF ~only_strings /\ IntRangeRegex_match(item)
     THEN [bad EXCEPT !.kind = "range",
                      !.range = MkRange(IntCode(DigitsVal(g1)), IntCode(DigitsVal(g2)))]
     ELSE IF StrCodeRegex_match(item)
     THEN [bad EXCEPT !.kind = "code", !.code = StrCode(item)]
     ELSE IF StrRangeRegex_match(item)
     THEN [bad EXCEPT !.kind = "range", !.range = MkRange(StrCode(g1), StrCode(g2))]
     ELSE bad

\* parse_category_codes that would pass over the empty items of the split
parse_category_codes_skipempty(itens, only_strings) ==
  LET NotEmpty(t) == t # <<>>
      toks == SelectSeq(Split(itens, ","), NotEmpty)
      parsed == [i \in 1..Len(toks) |-> parse_category_code(toks[i], only_strings)]
      IsCode(p) == p.kind = "code"
      IsRange(p) == p.kind = "range"
      cs == SelectSeq(parsed, IsCode)
      rs == SelectSeq(parsed, IsRange)
  IN [ok |-> \A i \in 1..Len(toks) : parsed[i].kind # "ValueError",
      codes |-> [i \in 1..Len(cs) |-> cs[i].code],
      ranges |-> [i \in 1..Len(rs) |-> rs[i].range]]

\* parse_category_codes: [ok, codes, ranges], the codes and the ranges in token order
parse_category_codes(itens, only_strings) ==
  LET toks == Split(itens, ",")
      parsed == [i \in 1..Len(toks) |-> parse_category_code(toks[i], only_strings)]
      IsCode(p) == p.kind = "code"
      IsRange(p) == p.kind = "range"
      cs == SelectSeq(parsed, IsCode)
      rs == SelectSeq(parsed, IsRange)
  IN [ok |-> \A i \in 1..Len(toks) : parsed[i].kind # "ValueError",
      codes |-> [i \in 1..Len(cs) |-> cs[i].code],
      ranges |-> [i \in 1..Len(rs) |-> rs[i].range]]

(***************************************************************************)
(* Lines.  A line is given by its columns: parent = line[0:3],             *)
(* idx = line[3:7], name = line[9:59], spec = line[60:]; the columns in    *)
(* between are blank.                                                      *)
(***************************************************************************)
LineText(l) == l.parent \o l.idx \o <<" ", " ">> \o l.name \o <<" ">> \o l.spec

\* RawCategoryLine.from_cnv_line: kind in line / skip / ValueError
from_cnv_line(l, only_strings) ==
  LET parent == int_or_none(l.parent)
      idx == PyInt(l.idx)
      name == Strip(l.name)
      codes_spec == RStrip(l.spec)
      parsed == parse_category_codes(codes_spec, only_strings)
      raw == [kind |-> "line", idx |-> idx.n, parent_idx |-> parent.n, name |-> name,
              codes |-> parsed.codes, code_ranges |-> parsed.ranges]
      empty == [kind |-> "skip", idx |-> 0, parent_idx |-> None, name |-> <<>>,
                codes |-> <<>>, code_ranges |-> <<>>]
  IN IF Strip(LineText(l)) = <<>> THEN empty
     ELSE IF Head(LStrip(LineText(l))) = ";" THEN empty
     ELSE IF ~parent.ok \/ ~idx.ok \/ ~parsed.ok THEN [empty EXCEPT !.kind = "ValueError"]
     ELSE raw

(***************************************************************************)
(* from_cnv_file: decode, join the lines of one idx, build the forest      *)
(***************************************************************************)
\* the decoded lines, in file order (blank and comment lines included as "skip")
DecodeLines(ls, only_strings) == [i \in 1..Len(ls) |-> from_cnv_line(ls[i], only_strings)]

IsLine(r) == r.kind = "line"

\* the keys of raw_category_lines in insertion order: each idx at its first line
IdxOrder(raws) ==
  LET at == [k \in 1..Len(raws) |-> [k |-> k, idx |-> raws[k].idx]]
      First(a) == \A j \in 1..(a.k - 1) : raws[j].idx # a.idx
      firsts == SelectSeq(at, First)
  IN [n \in 1..Len(firsts) |-> firsts[n].idx]

\* raw_category_lines[idx]
LinesOf(raws, idx) == LET Same(r) == r.idx = idx IN SelectSeq(raws, Same)

Attr(line, which) == IF which = "codes" THEN line.codes ELSE line.code_ranges

\* reduce(lambda a, b: a.<which> + b.<which>, raw_cat_lines): the accumulator is the
\* first line, then the list the lambda returned, whose attribute <which> does not exist
RECURSIVE Reduce(_, _, _)
Reduce(acc, rest, which) ==
  IF rest = <<>> THEN acc
  ELSE IF acc.kind # "line" THEN [acc EXCEPT !.kind = "AttributeError", !.list = <<>>]
  ELSE Reduce([acc EXCEPT !.kind = "list",
                          !.list = Attr(acc.line, which) \o Attr(Head(rest), which)],
              Tail(rest), which)

\* one entry of raw_categories: [kind, idx, parent_idx, name, codes, code_ranges]
JoinLines(raw_cat_lines) ==
  LET cat_raw == raw_cat_lines[1]
      start == [kind |-> "line", line |-> cat_raw, list |-> <<>>]
      codes == Reduce(start, Tail(raw_cat_lines), "codes")
      code_ranges == Reduce(start, Tail(raw_cat_lines), "code_ranges")
  IN IF Len(raw_cat_lines) = 1 THEN cat_raw
     ELSE IF codes.kind = "AttributeError" \/ code_ranges.kind = "AttributeError"
          THEN [cat_raw EXCEPT !.kind = "AttributeError"]
          ELSE [cat_raw EXCEPT !.codes = codes.list, !.code_ranges = code_ranges.list]

Range(f) == {f[i] : i \in DOMAIN f}

\* raw_categories as a function of idx
RawCategories(raws) ==
  [idx \in Range(IdxOrder(raws)) |-> JoinLines(LinesOf(raws, idx))]

\* direct_children[cat_idx]
direct_children(raw_categories, cat_idx) ==
  {i \in DOMAIN raw_categories : raw_categories[i].parent_idx = cat_idx}

\* roots
Roots(raw_categories) ==
  {i \in DOMAIN raw_categories : raw_categories[i].parent_idx = None}

\* the idx of the nodes make_category(cat_idx) builds
RECURSIVE Subtree(_, _)
Subtree(raw_categories, cat_idx) ==
  {cat_idx} \cup UNION {Subtree(raw_categories, c) : c \in direct_children(raw_categories, cat_idx)}

\* Category.__post_init__: _all_codes / _all_ranges, from the children's cached sets
RECURSIVE AllOf(_, _, _)
AllOf(raw_categories, cat_idx, which) ==
  Range(Attr(raw_categories[cat_idx], which))
    \cup UNION {AllOf(raw_categories, c, which) : c \in direct_children(raw_categories, cat_idx)}

\* the members of S in the order of perm (the iteration order of a frozenset)
InOrder(perm, S) == LET In(i) == i \in S IN SelectSeq(perm, In)

\* make_category(cat_idx); a node is named by its idx, children lists the children's idx
make_category(raw_categories, cat_idx, perm) ==
  LET raw_cat == raw_categories[cat_idx]
  IN [idx |-> raw_cat.idx, name |-> raw_cat.name,
      codes |-> Range(raw_cat.codes), ranges |-> Range(raw_cat.code_ranges),
      parent_idx |-> raw_cat.parent_idx,
      children |-> InOrder(perm, direct_children(raw_categories, cat_idx)),
      all_codes |-> AllOf(raw_categories, cat_idx, "codes"),
      all_ranges |-> AllOf(raw_categories, cat_idx, "code_ranges")]

\* the loop that fills direct_children and roots: the pairs <<parent_idx, idx>>
Links(raw_categories) ==
  {<<raw_categories[i].parent_idx, i>> : i \in DOMAIN raw_categories}

\* the records that make_category reaches n levels below those of S, n taken by halves
RECURSIVE Below(_, _, _)
Below(links, S, n) ==
  IF S = {} \/ n = 0 THEN S
  ELSE IF n = 1 THEN {l[2] : l \in {m \in links : m[1] \in S}}
  ELSE Below(links, Below(links, S, n \div 2), n - (n \div 2))

\* the interpreter allows RecursionLimit nested frames (sys.getrecursionlimit() as the
\* interpreter starts); from_cnv_file holds one, so as many nested activations of
\* make_category do not fit, whatever the frames the caller already holds
RecursionLimit == 1000

\* the exception raised before tree building, if any: by the header, by a line, by the join
JoinStatus(h, decoded, raw_categories) ==
  IF ~h.ok THEN "InvalidCnvFirstLine"
  ELSE IF \E i \in 1..Len(decoded) : decoded[i].kind = "ValueError" THEN "ValueError"
  ELSE IF \E i \in DOMAIN raw_categories : raw_categories[i].kind = "AttributeError"
       THEN "AttributeError"
  ELSE "ok"

Failed(status) == [status |-> status, code_length |-> 0, letter_codes |-> FALSE,
                   categories |-> <<>>, cats |-> <<>>]

\* "Compute children", "Make categories" and "Finish" of from_cnv_file
make_categories(h, raw_categories, perm) ==
  LET roots == Roots(raw_categories)
      built == UNION {Subtree(raw_categories, r) : r \in roots}
  IN IF Below(Links(raw_categories), roots, RecursionLimit - 1) # {}
     THEN Failed("RecursionError")
     ELSE [status |-> "ok", code_length |-> h.code_length, letter_codes |-> h.letter_codes,
           categories |-> InOrder(perm, roots),
           cats |-> [i \in built |-> make_category(raw_categories, i, perm)]]

\* CategorySet.from_cnv_file(contents), contents = hdr and ls; perm is the order in
\* which the frozensets of categories happen to iterate
from_cnv_file(hdr, ls, perm) ==
  LET h == ParseHeader(hdr)
      decoded == DecodeLines(ls, h.letter_codes)
      raw_categories == RawCategories(SelectSeq(decoded, IsLine))
      status == JoinStatus(h, decoded, raw_categories)
  IN IF status # "ok" THEN Failed(status) ELSE make_categories(h, raw_categories, perm)

\* the idx values the lines of a document declare
DeclaredIdx(hdr, ls) ==
  LET decoded == DecodeLines(ls, ParseHeader(hdr).letter_codes)
  IN {decoded[i].idx : i \in {j \in 1..Len(decoded) : decoded[j].kind = "line"}}

Perms(S) ==
  {p \in [1..Cardinality(S) -> S] : \A i, j \in 1..Cardinality(S) : p[i] = p[j] => i = j}

(***************************************************************************)
(* Lookups.  A result is [kind, path]: kind "node" with path = <<idx>>,    *)
(* kind "path" with the idx of the nodes from the top down, kind "None",   *)
(* or the name of the exception raised.                                    *)
(***************************************************************************)
Result(kind, path) == [kind |-> kind, path |-> path]

\* Category.__contains__: item in self._all_codes or any([item in x for x in self._all_ranges])
\* (the list is built in full, so one range of the other kind raises)
Category_contains(cat, item) ==
  IF item \in cat.all_codes THEN "True"
  ELSE IF \E x \in cat.all_ranges : Range_contains(x, item) = "TypeError" THEN "TypeError"
  ELSE IF \E x \in cat.all_ranges : Range_contains(x, item) = "True" THEN "True"
  ELSE "False"

RECURSIVE Category_get_leaf(_, _, _)
RECURSIVE FirstLeaf(_, _, _)
\* for cat in children: if ans := cat.get_leaf(item): return ans
FirstLeaf(cats, children, item) ==
  IF children = <<>> THEN Result("None", <<>>)
  ELSE LET ans == Category_get_leaf(cats, Head(children), item)
       IN IF ans.kind # "None" THEN ans ELSE FirstLeaf(cats, Tail(children), item)

\* Category.get_leaf
Category_get_leaf(cats, idx, item) ==
  LET ans == FirstLeaf(cats, cats[idx].children, item)
      here == Category_contains(cats[idx], item)
  IN IF ans.kind # "None" THEN ans
     ELSE IF here = "TypeError" THEN Result("TypeError", <<>>)
     ELSE IF here = "True" THEN Result("node", <<idx>>)
     ELSE Result("None", <<>>)

RECURSIVE Category_get_path(_, _, _)
RECURSIVE FirstPath(_, _, _)
\* for cat in children: if ans := cat.get_path(item): return ans
FirstPath(cats, children, item) ==
  IF children = <<>> THEN Result("None", <<>>)
  ELSE LET ans == Category_get_path(cats, Head(children), item)
       IN IF ans.kind # "None" THEN ans ELSE FirstPath(cats, Tail(children), item)

\* Category.get_path
Category_get_path(cats, idx, item) ==
  LET ans == FirstPath(cats, cats[idx].children, item)
      here == Category_contains(cats[idx], item)
  IN IF ans.kind = "path" THEN Result("path", <<idx>> \o ans.path)
     ELSE IF ans.kind # "None" THEN ans
     ELSE IF here = "TypeError" THEN Result("TypeError", <<>>)
     ELSE IF here = "True" THEN Result("path", <<idx>>)
     ELSE Result("None", <<>>)

\* CategorySet.get_root: the first root, in iteration order, that contains the item
RECURSIVE FirstRoot(_, _, _)
FirstRoot(cats, categories, item) ==
  IF categories = <<>> THEN Result("None", <<>>)
  ELSE LET here == Category_contains(cats[Head(categories)], item)
       IN IF here = "TypeError" THEN Result("TypeError", <<>>)
          ELSE IF here = "True" THEN Result("node", <<Head(categories)>>)
          ELSE FirstRoot(cats, Tail(categories), item)

CategorySet_get_root(cs, item) == FirstRoot(cs.cats, cs.categories, item)

\* a loop over the roots that misses the first one
CategorySet_get_leaf_skipfirst(cs, item) ==
  FirstLeaf(cs.cats, SubSeq(cs.categories, 2, Len(cs.categories)), item)

CategorySet_get_leaf(cs, item) == FirstLeaf(cs.cats, cs.categories, item)

CategorySet_get_path(cs, item) == FirstPath(cs.cats, cs.categories, item)

\* an accessor that looks the item up as an idx
CategorySet_getitem_byid(cs, item) ==
  IF item.t = "int" /\ item.n \in DOMAIN cs.cats
  THEN Result("node", <<item.n>>)
  ELSE Result("KeyError", <<>>)

\* CategorySet.__getitem__
CategorySet_getitem(cs, item) ==
  LET ans == CategorySet_get_leaf(cs, item)
  IN IF ans.kind = "None" THEN Result("KeyError", <<>>) ELSE ans

\* flatten(cat) inside flat_categories: a generator that yields cat; the generators it
\* makes for the children are never iterated
flatten(cats, idx) == <<idx>>

\* the members of a set of integers in ascending order
RECURSIVE Sorted(_)
Sorted(S) ==
  IF S = {} THEN <<>>
  ELSE LET m == CHOOSE x \in S : \A y \in S : x <= y IN <<m>> \o Sorted(S \ {m})

\* CategorySet.flat_categories: the keys of the dict, in its (ascending) order;
\* the value at key k is the node of idx k
CategorySet_flat_categories(cs) ==
  LET keys == UNION {Range(flatten(cs.cats, cs.categories[i])) : i \in 1..Len(cs.categories)}
  IN Result("dict", Sorted(keys))

\* CategorySet.__len__
CategorySet_len(cs) == Result("len", <<Len(cs.categories)>>)

(***************************************************************************)
(* The documents and the lookup items the model runs on                    *)
(***************************************************************************)
Blank3 == <<" ", " ", " ">>

\* "        1  a   1": a root with the code 1
LineA == [parent |-> Blank3, idx |-> <<" ", " ", " ", "1">>, name |-> <<"A">>, spec |-> <<"1">>]

\* a child of 1 with the code 2
LineB == [parent |-> <<"0", "0", "1">>, idx |-> <<" ", " ", " ", "2">>, name |-> <<"B">>,
          spec |-> <<"2">>]

\* a child of 2 with the code 3 and the range A-B
LineC == [parent |-> <<"0", "0", "2">>, idx |-> <<" ", " ", " ", "3">>, name |-> <<"A", "B">>,
          spec |-> <<"3", ",", "A", "-", "B">>]

\* a root with the range 0-3, which covers the codes of the other lines
LineD == [parent |-> Blank3, idx |-> <<" ", " ", " ", "3">>, name |-> <<"X">>,
          spec |-> <<"0", "-", "3", " ">>]

\* a root with the code A
LineE == [parent |-> Blank3, idx |-> <<" ", " ", " ", "2">>, name |-> <<"L">>, spec |-> <<"A">>]

\* a comment line
LineF == [parent |-> <<" ", ";", " ">>, idx |-> <<" ", " ", " ", "1">>, name |-> <<"X">>,
          spec |-> <<"1">>]

LineSet == {LineA, LineB, LineC, LineD, LineE, LineF}

RECURSIVE SeqsUpTo(_, _)
SeqsUpTo(S, n) ==
  IF n = 0 THEN {<<>>}
  ELSE LET shorter == SeqsUpTo(S, n - 1)
       IN shorter \cup {Append(q, x) : q \in shorter, x \in S}

\* "1 1" and "1 1 L"
GoodHeaders == {<<"1", " ", "1">>, <<"1", " ", "1", " ", "L">>}

HeaderText == SeqsUpTo({" ", "1", "L", "X"}, MaxHeaderLen)

Items ==
  {IntCode(1), IntCode(2), IntCode(3), IntCode(5), StrCode(<<"1">>), StrCode(<<"A">>), StrCode(<<"X">>)}

\* a record naming itself as parent
LineG == [parent |-> <<"0", "0", "2">>, idx |-> <<" ", " ", " ", "2">>, name |-> <<"X">>,
          spec |-> <<"2">>]

\* a child of 3 with the idx 2: with LineC, 2 and 3 name each other as parent
LineH == [parent |-> <<"0", "0", "3">>, idx |-> <<" ", " ", " ", "2">>, name |-> <<"B">>,
          spec |-> <<"1">>]

\* a root whose code-specification columns are blank
LineI == [parent |-> Blank3, idx |-> <<" ", " ", " ", "2">>, name |-> <<"X">>,
          spec |-> <<" ", " ">>]

\* a root whose specification has an empty token between two commas
LineJ == [parent |-> Blank3, idx |-> <<" ", " ", " ", "3">>, name |-> <<"X">>,
          spec |-> <<"1", ",", ",", "3">>]

\* a blank line
LineK == [parent |-> Blank3, idx |-> <<" ", " ", " ", " ">>, name |-> <<" ">>, spec |-> <<" ">>]

BuildLines == {LineA, LineB, LineC, LineF, LineG, LineH, LineI, LineJ, LineK}

\* "%0<w>d" % n
DigitChar(d) == <<"0", "1", "2", "3", "4", "5", "6", "7", "8", "9">>[d + 1]

Pad(n, w) == [k \in 1..w |-> DigitChar((n \div (10 ^ (w - k))) % 10)]

\* line i of a document whose categories are nested one in the other: 0 is the root,
\* i > 0 is the only child of i - 1
ChainLine(i) ==
  [parent |-> IF i = 0 THEN Blank3 ELSE Pad(i - 1, 3), idx |-> Pad(i, 4), name |-> <<"X">>,
   spec |-> <<"1">>]

ChainLines(n) == [k \in 1..n |-> ChainLine(k - 1)]

\* the orders in which the frozensets of a document can iterate; in a document of more
\* than MaxLines + 1 lines (a chain) every frozenset has one member and so one order
Orders(hdr, ls) ==
  LET decoded == DecodeLines(ls, ParseHeader(hdr).letter_codes)
  IN IF Len(ls) <= MaxLines + 1 THEN Perms(DeclaredIdx(hdr, ls))
     ELSE {IdxOrder(SelectSeq(decoded, IsLine))}

NoSet == [status |-> "none", code_length |-> 0, letter_codes |-> FALSE,
          categories |-> <<>>, cats |-> <<>>]

NoRes == [op |-> "none", item |-> NoCode, node |-> None, kind |-> "none", path |-> <<>>]

\* the record of one call: the operation, its arguments and its result
Call(op, item, node, result) ==
  [op |-> op, item |-> item, node |-> node, kind |-> result.kind, path |-> result.path]

NoProbe == [start |-> <<>>, end |-> <<>>, item |-> <<>>]

NoToken == [item |-> <<>>, only_strings |-> FALSE]

NoParsed == [kind |-> "none", code |-> NoCode, range |-> MkRange(NoCode, NoCode)]

(***************************************************************************)
(* Specification: a document is parsed, then looked up                     *)
(***************************************************************************)
Init ==
  /\ pc = "text"
  /\ \/ header \in GoodHeaders /\ lines \in SeqsUpTo(LineSet, MaxLines)
     \/ header \in HeaderText /\ lines = <<LineA>>
  /\ category_set = NoSet
  /\ res = NoRes
  /\ probe = NoProbe
  /\ token = NoToken
  /\ token_res = NoParsed

\* category_set = CategorySet.from_cnv_file(contents)
FromCnvFile ==
  /\ pc = "text"
  /\ \E perm \in Perms(DeclaredIdx(header, lines)) :
        category_set' = from_cnv_file(header, lines, perm)
  /\ pc' = IF category_set'.status = "ok" THEN "parsed" ELSE "raised"
  /\ UNCHANGED <<header, lines, res, probe, token, token_res>>

GetRoot ==
  /\ pc = "parsed"
  /\ \E item \in Items : res' = Call("get_root", item, None, CategorySet_get_root(category_set, item))
  /\ pc' = "called"
  /\ UNCHANGED <<header, lines, category_set, probe, token, token_res>>

GetLeaf ==
  /\ pc = "parsed"
  /\ \E item \in Items : res' = Call("get_leaf", item, None, CategorySet_get_leaf(category_set, item))
  /\ pc' = "called"
  /\ UNCHANGED <<header, lines, category_set, probe, token, token_res>>

GetPath ==
  /\ pc = "parsed"
  /\ \E item \in Items : res' = Call("get_path", item, None, CategorySet_get_path(category_set, item))
  /\ pc' = "called"
  /\ UNCHANGED <<header, lines, category_set, probe, token, token_res>>

GetItem ==
  /\ pc = "parsed"
  /\ \E item \in Items : res' = Call("getitem", item, None, CategorySet_getitem(category_set, item))
  /\ pc' = "called"
  /\ UNCHANGED <<header, lines, category_set, probe, token, token_res>>

FlatCategories ==
  /\ pc = "parsed"
  /\ res' = Call("flat_categories", NoCode, None, CategorySet_flat_categories(category_set))
  /\ pc' = "called"
  /\ UNCHANGED <<header, lines, category_set, probe, token, token_res>>

SetLen ==
  /\ pc = "parsed"
  /\ res' = Call("len", NoCode, None, CategorySet_len(category_set))
  /\ pc' = "called"
  /\ UNCHANGED <<header, lines, category_set, probe, token, token_res>>

\* item in cat, for a node cat of the forest
NodeContains ==
  /\ pc = "parsed"
  /\ \E item \in Items, n \in DOMAIN category_set.cats :
        res' = Call("contains", item, n, Result(Category_contains(category_set.cats[n], item), <<>>))
  /\ pc' = "called"
  /\ UNCHANGED <<header, lines, category_set, probe, token, token_res>>

\* cat.get_leaf(item), for a node cat of the forest
NodeGetLeaf ==
  /\ pc = "parsed"
  /\ \E item \in Items, n \in DOMAIN category_set.cats :
        res' = Call("node_get_leaf", item, n, Category_get_leaf(category_set.cats, n, item))
  /\ pc' = "called"
  /\ UNCHANGED <<header, lines, category_set, probe, token, token_res>>

\* cat.get_path(item), for a node cat of the forest
NodeGetPath ==
  /\ pc = "parsed"
  /\ \E item \in Items, n \in DOMAIN category_set.cats :
        res' = Call("node_get_path", item, n, Category_get_path(category_set.cats, n, item))
  /\ pc' = "called"
  /\ UNCHANGED <<header, lines, category_set, probe, token, token_res>>

Next ==
  \/ FromCnvFile
  \/ GetRoot
  \/ GetLeaf
  \/ GetPath
  \/ GetItem
  \/ FlatCategories
  \/ SetLen
  \/ NodeContains
  \/ NodeGetLeaf
  \/ NodeGetPath

Spec == Init /\ [][Next]_vars

(***************************************************************************)
(* Specification of StrRange.__contains__ on its own                       *)
(***************************************************************************)
ProbeText == SeqsUpTo({"A", "B"}, MaxStrLen)

InitStrRange ==
  /\ pc = "probe"
  /\ header = <<>>
  /\ lines = <<>>
  /\ category_set = NoSet
  /\ res = NoRes
  /\ probe \in [start : ProbeText, end : ProbeText, item : ProbeText]
  /\ token = NoToken
  /\ token_res = NoParsed

\* evaluate `item in StrRange(start, end)`
StrRangeContains ==
  /\ pc = "probe"
  /\ pc' = "probed"
  /\ res' = Call("StrRange.__contains__", StrCode(probe.item), None,
                 Result(StrRange_contains(MkRange(StrCode(probe.start), StrCode(probe.end)),
                                          StrCode(probe.item)), <<>>))
  /\ UNCHANGED <<header, lines, category_set, probe, token, token_res>>

NextStrRange == StrRangeContains

SpecStrRange == InitStrRange /\ [][NextStrRange]_vars

\* lexicographic order stated by the first position where the texts differ
LexLeq(a, b) ==
  \/ /\ Len(a) <= Len(b)
     /\ \A i \in 1..Len(a) : a[i] = b[i]
  \/ \E i \in 1..Min(Len(a), Len(b)) :
        /\ CharOrd(a[i]) < CharOrd(b[i])
        /\ \A j \in 1..(i - 1) : a[j] = b[j]

ProbeLenOk ==
  /\ Min(Len(probe.start), Len(probe.end)) <= Len(probe.item)
  /\ Len(probe.item) <= Max(Len(probe.start), Len(probe.end))

ProbeLexOk == LexLeq(probe.start, probe.item) /\ LexLeq(probe.item, probe.end)

\* C10: s in StrRange(a, b) is true iff min(len a, len b) <= len s <= max(len a, len b)
\* and a <= s <= b lexicographically; a string longer or shorter than both endpoints
\* is never contained, even when it lies lexicographically between them.
C10_StrRangeContains ==
  pc = "probed" =>
    /\ res.kind \in {"True", "False"}
    /\ (res.kind = "True") <=> (ProbeLenOk /\ ProbeLexOk)
    /\ (~ProbeLenOk) => res.kind = "False"

\* a text longer than both endpoints, lexicographically between them, is rejected
C10_Witness ==
  /\ pc = "probed"
  /\ Len(probe.item) > Max(Len(probe.start), Len(probe.end))
  /\ ProbeLexOk
  /\ res.kind = "False"

(***************************************************************************)
(* Properties of the forest and of the lookups                             *)
(***************************************************************************)
Cats == category_set.cats

Called(op) == pc = "called" /\ res.op = op

\* x lies within the range r: same kind of code, and inside the bounds
Within(r, x) ==
  /\ r.start.t = x.t
  /\ IF x.t = "int"
     THEN r.start.n <= x.n /\ x.n <= r.end.n
     ELSE /\ Min(Len(r.start.s), Len(r.end.s)) <= Len(x.s)
          /\ Len(x.s) <= Max(Len(r.start.s), Len(r.end.s))
          /\ LexLeq(r.start.s, x.s) /\ LexLeq(x.s, r.end.s)

\* x is one of the own codes of node n or lies within one of its own ranges
OwnHolds(n, x) == x \in Cats[n].codes \/ \E r \in Cats[n].ranges : Within(r, x)

\* a is a proper ancestor of m, by the parent_idx links
RECURSIVE IsAncestor(_, _)
IsAncestor(a, m) ==
  /\ Cats[m].parent_idx \in DOMAIN Cats
  /\ Cats[m].parent_idx = a \/ IsAncestor(a, Cats[m].parent_idx)

\* n and its descendants at every depth
SubtreeOf(n) == {n} \cup {m \in DOMAIN Cats : IsAncestor(n, m)}

\* some node of the subtree of n holds x
SubtreeHolds(n, x) == \E m \in SubtreeOf(n) : OwnHolds(m, x)

\* a lookup of x meets a range of the other kind of code somewhere in the forest
MixedKinds(x) == \E m \in DOMAIN Cats : \E r \in Cats[m].all_ranges : r.start.t # x.t

\* C1: x in n is true iff x equals one of n's own codes, lies within one of n's own
\* ranges, or is contained by some descendant of n (at every depth).
C1_ContainsIffSubtreeHolds ==
  Called("contains") => ((res.kind = "True") <=> SubtreeHolds(res.node, res.item))

\* C2: n.get_leaf(x) is absent iff n does not contain x; otherwise it is a node of n's
\* subtree that holds x in its own codes or ranges and none of whose children contains x.
\* CategorySet.get_leaf is the result of the first root that yields a node, else absent.
C2_GetLeafMostSpecific ==
  /\ Called("node_get_leaf") =>
       /\ (res.kind = "None") <=> ~SubtreeHolds(res.node, res.item)
       /\ SubtreeHolds(res.node, res.item) =>
            /\ res.kind = "node"
            /\ res.path[1] \in SubtreeOf(res.node)
            /\ OwnHolds(res.path[1], res.item)
            /\ \A i \in 1..Len(Cats[res.path[1]].children) :
                 ~SubtreeHolds(Cats[res.path[1]].children[i], res.item)
  /\ Called("get_leaf") =>
       LET roots == category_set.categories
           yields == {i \in 1..Len(roots) : SubtreeHolds(roots[i], res.item)}
       IN IF yields = {} THEN res.kind = "None"
          ELSE /\ res.kind = "node"
               /\ res.path[1] \in SubtreeOf(roots[CHOOSE i \in yields : \A j \in yields : i <= j])
               /\ OwnHolds(res.path[1], res.item)

\* C3: when some category contains x, get_path(x) is a non-empty top-down chain: it
\* starts at a root equal to get_root(x), each next element is a child of the one before,
\* and the last is get_leaf(x); when none contains x, the three lookups are all absent.
C3_GetPathChain ==
  Called("get_path") =>
    LET x == res.item
        root == CategorySet_get_root(category_set, x)
        leaf == CategorySet_get_leaf(category_set, x)
    IN IF \E m \in DOMAIN Cats : OwnHolds(m, x)
       THEN /\ res.kind = "path"
            /\ Len(res.path) >= 1
            /\ Cats[res.path[1]].parent_idx = None
            /\ root = Result("node", <<res.path[1]>>)
            /\ \A i \in 2..Len(res.path) :
                 \E k \in 1..Len(Cats[res.path[i - 1]].children) :
                    Cats[res.path[i - 1]].children[k] = res.path[i]
            /\ leaf = Result("node", <<res.path[Len(res.path)]>>)
       ELSE res.kind = "None" /\ root.kind = "None" /\ leaf.kind = "None"

(***************************************************************************)
(* Properties of from_cnv_file                                             *)
(***************************************************************************)
Parsed == pc \in {"parsed", "called"}

Returned == pc \in {"parsed", "called", "raised"}

\* the data lines of the document as decoded one by one, in file order
DataLines == SelectSeq(DecodeLines(lines, ParseHeader(header).letter_codes), IsLine)

\* the data lines that carry the category index i
DataLinesOf(i) == LinesOf(DataLines, i)

\* C4: for any number k >= 1 of data lines sharing one idx, from_cnv_file produces one
\* category of that idx whose codes and ranges are those of all k lines together, with
\* the name and the parent_idx of the first of them (k = 3 and more as well as k = 2).
C4_ContinuationLinesMerge ==
  (Returned /\ category_set.status \notin {"InvalidCnvFirstLine", "ValueError"}) =>
    /\ category_set.status = "ok"
    /\ \A i \in DOMAIN Cats :
         LET ls == DataLinesOf(i)
         IN /\ Cats[i].idx = i
            /\ Cats[i].codes = UNION {Range(ls[k].codes) : k \in 1..Len(ls)}
            /\ Cats[i].ranges = UNION {Range(ls[k].code_ranges) : k \in 1..Len(ls)}
            /\ Cats[i].name = ls[1].name
            /\ Cats[i].parent_idx = ls[1].parent_idx
    /\ \A k \in 1..Len(DataLines) :
         DataLinesOf(DataLines[k].idx)[1].parent_idx = None =>
           Cardinality({j \in 1..Len(category_set.categories) :
                          category_set.categories[j] = DataLines[k].idx}) = 1

\* every data line of the document has a blank parent column
Flat == \A k \in 1..Len(DataLines) : DataLines[k].parent_idx = None

\* the categories on whose lines the literal code x is declared
DeclaredBy(x) ==
  {DataLines[k].idx : k \in {j \in 1..Len(DataLines) : x \in Range(DataLines[j].codes)}}

\* the categories of the forest that hold x in their own codes or ranges
Holders(x) == {m \in DOMAIN Cats : OwnHolds(m, x)}

\* C5 as claimed: in a flat document, get_leaf of a literal code declared on a line of
\* category c returns c, also when another category's range covers that code.
C5_FlatLeafIsDeclarer ==
  (Called("get_leaf") /\ Flat) =>
    \A c \in DeclaredBy(res.item) : res.kind = "node" /\ res.path = <<c>>

\* C5 as amended: in a flat document, get_leaf of a literal code declared on a line of
\* category c is never absent: it returns a root category that holds the code in its own
\* codes or ranges, which is c when c is the only category that does, or it raises
\* TypeError, which needs a range of the other kind of code in the document.
C5_FlatLeafHoldsCode ==
  (Called("get_leaf") /\ Flat /\ DeclaredBy(res.item) # {}) =>
    /\ res.kind \in {"node", "TypeError"}
    /\ res.kind = "node" =>
         /\ res.path[1] \in Holders(res.item)
         /\ Cats[res.path[1]].parent_idx = None
         /\ \A c \in DeclaredBy(res.item) : Holders(res.item) = {c} => res.path = <<c>>
    /\ res.kind = "TypeError" => MixedKinds(res.item)

\* a flat document where get_leaf of a declared code returns another category
C5_Witness ==
  /\ Called("get_leaf") /\ Flat
  /\ res.kind = "node"
  /\ \E c \in DeclaredBy(res.item) : res.path[1] # c /\ Holders(res.item) # {c}

\* C6 as claimed: category_set[i] returns the node whose idx is i and raises the
\* not-found error when no node has idx i.
C6_GetItemById ==
  (Called("getitem") /\ res.item.t = "int") =>
    IF res.item.n \in DOMAIN Cats
    THEN res.kind = "node" /\ res.path = <<res.item.n>>
    ELSE res.kind = "KeyError"

\* C6 as amended: category_set[item] is a lookup by code, the same search as
\* get_leaf(item): a node it returns holds the item in its own codes or ranges whatever
\* its idx, KeyError is raised exactly when get_leaf(item) is absent (then no category
\* holds the item), and an error raised by get_leaf passes through.
C6_GetItemByCode ==
  Called("getitem") =>
    LET leaf == CategorySet_get_leaf(category_set, res.item)
    IN /\ res.kind \in {"node", "KeyError", "TypeError"}
       /\ res.kind = "node" => res.path[1] \in Holders(res.item)
       /\ res.kind = "KeyError" <=> leaf.kind = "None"
       /\ res.kind = "KeyError" => Holders(res.item) = {}
       /\ res.kind # "KeyError" => (res.kind = leaf.kind /\ res.path = leaf.path)

\* category_set[i] returns a node of another idx although a node of idx i exists
C6_Witness ==
  /\ Called("getitem")
  /\ res.item.t = "int" /\ res.item.n \in DOMAIN Cats
  /\ res.kind = "node" /\ res.path[1] # res.item.n

\* C7: the keys of flat_categories are exactly the idx values of all nodes of the forest,
\* roots and descendants at every depth.
C7_FlatCategoriesKeys ==
  Called("flat_categories") => Range(res.path) = DOMAIN Cats

\* C8: a lookup of an item that no category contains ends in the ordinary negative
\* result: category_set[item] raises KeyError, get_leaf, get_root and get_path return
\* absent, whatever the kind (integer or string) of the item and of the ranges.
C8_NotFoundIsOrdinary ==
  (pc = "called" /\ Holders(res.item) = {}) =>
    /\ res.op = "getitem" => res.kind = "KeyError"
    /\ res.op \in {"get_leaf", "get_root", "get_path"} => res.kind = "None"

\* the text h is: spaces, digits, spaces, digits and, with mark, spaces and the letter L
HeaderShape(h, mark) ==
  \E a, b, c, d \in 0..Len(h) :
    /\ a < b /\ b < c /\ c < d
    /\ \A i \in 1..a : IsSpace(h[i])
    /\ \A i \in (a + 1)..b : IsDigit(h[i])
    /\ \A i \in (b + 1)..c : IsSpace(h[i])
    /\ \A i \in (c + 1)..d : IsDigit(h[i])
    /\ IF mark
       THEN /\ d + 2 <= Len(h)
            /\ \A i \in (d + 1)..(Len(h) - 1) : IsSpace(h[i])
            /\ h[Len(h)] = "L"
       ELSE d = Len(h)

\* C9: a first line of the shape digits, digits and an optional L is accepted, with
\* letter_codes true iff the L is there; every other first line, a trailing marker other
\* than L included, makes from_cnv_file fail with InvalidCnvFirstLine.
C9_HeaderAcceptedIffShape ==
  (Returned /\ lines = <<LineA>>) =>
    /\ HeaderShape(header, FALSE) => category_set.status = "ok" /\ ~category_set.letter_codes
    /\ HeaderShape(header, TRUE) => category_set.status = "ok" /\ category_set.letter_codes
    /\ ~(HeaderShape(header, FALSE) \/ HeaderShape(header, TRUE)) =>
         category_set.status = "InvalidCnvFirstLine"

(***************************************************************************)
(* Specification of parse_category_code on its own                         *)
(***************************************************************************)
TokenText == SeqsUpTo({"1", "3", "A", "-", ",", " "}, MaxTokenLen)

InitToken ==
  /\ pc = "token"
  /\ header = <<>>
  /\ lines = <<>>
  /\ category_set = NoSet
  /\ res = NoRes
  /\ probe = NoProbe
  /\ token \in [item : TokenText, only_strings : BOOLEAN]
  /\ token_res = NoParsed

\* token_res = parse_category_code(item, only_strings)
ParseCategoryCode ==
  /\ pc = "token"
  /\ pc' = "tokened"
  /\ token_res' = parse_category_code(token.item, token.only_strings)
  /\ UNCHANGED <<header, lines, category_set, res, probe, token>>

NextToken == ParseCategoryCode

SpecToken == InitToken /\ [][NextToken]_vars

\* the number a text of decimal digits writes
RECURSIVE Decimal(_)
Decimal(s) ==
  IF Len(s) = 0 THEN 0
  ELSE LET d == CHOOSE v \in 0..9 : CharOrd(s[1]) = 48 + v
           RECURSIVE Pow10(_)
           Pow10(k) == IF k = 0 THEN 1 ELSE 10 * Pow10(k - 1)
       IN d * Pow10(Len(s) - 1) + Decimal(Tail(s))

TokNumeric(s) == Len(s) >= 1 /\ \A i \in 1..Len(s) : s[i] \in {"0", "1", "2", "3"}

TokPlain(s) == Len(s) >= 1 /\ \A i \in 1..Len(s) : s[i] # "-" /\ s[i] # ","

\* s is left-right with the one "-" at position k
TokSplitAt(s, k) ==
  /\ s[k] = "-"
  /\ TokPlain(SubSeq(s, 1, k - 1))
  /\ TokPlain(SubSeq(s, k + 1, Len(s)))

TokLeft(s, k) == SubSeq(s, 1, k - 1)

TokRight(s, k) == SubSeq(s, k + 1, Len(s))

\* C11: parse_category_code is numeric first with a string fallback: in integer mode an
\* all-digit token is an integer code and digits-digits is an IntRange with the endpoints
\* as written; in letter mode the same tokens are a string code and a StrRange; any other
\* token is, in both modes, a string code when it has no "-" or ",", a StrRange when it
\* is token-token; and every remaining token (empty, two or more "-") is rejected.
C11_TokenClassification ==
  pc = "tokened" =>
    LET s == token.item
        ints == ~token.only_strings
        plain == TokPlain(s)
        splits == {k \in 1..Len(s) : TokSplitAt(s, k)}
    IN /\ (plain /\ ints /\ TokNumeric(s)) =>
            token_res.kind = "code" /\ token_res.code = IntCode(Decimal(s))
       /\ (plain /\ ~(ints /\ TokNumeric(s))) =>
            token_res.kind = "code" /\ token_res.code = StrCode(s)
       /\ \A k \in splits :
            IF ints /\ TokNumeric(TokLeft(s, k)) /\ TokNumeric(TokRight(s, k))
            THEN /\ token_res.kind = "range"
                 /\ token_res.range = MkRange(IntCode(Decimal(TokLeft(s, k))),
                                           IntCode(Decimal(TokRight(s, k))))
            ELSE /\ token_res.kind = "range"
                 /\ token_res.range = MkRange(StrCode(TokLeft(s, k)), StrCode(TokRight(s, k)))
       /\ (~plain /\ splits = {}) => token_res.kind = "ValueError"

\* the token 3-1 in integer mode: an IntRange that keeps start > end
C11_Witness ==
  /\ pc = "tokened"
  /\ ~token.only_strings
  /\ token.item = <<"3", "-", "1">>
  /\ token_res.kind = "range"
  /\ token_res.range = MkRange(IntCode(3), IntCode(1))

(***************************************************************************)
(* Specification of from_cnv_file on documents whose lines name any        *)
(* parent: themselves, each other, nobody, or one another in a long chain  *)
(***************************************************************************)
\* a root whose code-specification columns hold the text t
SpecLine(t) == [parent |-> Blank3, idx |-> <<" ", " ", " ", "1">>, name |-> <<"X">>, spec |-> t]

BuildDocs ==
  SeqsUpTo(BuildLines, MaxLines)
    \cup {ChainLines(MaxLines + 2), ChainLines(RecursionLimit)}
    \cup {<<SpecLine(t)>> : t \in TokenText}

InitBuild ==
  /\ pc = "text"
  /\ header \in GoodHeaders
  /\ lines \in BuildDocs
  /\ category_set = NoSet
  /\ res = NoRes
  /\ probe = NoProbe
  /\ token = NoToken
  /\ token_res = NoParsed

\* category_set = CategorySet.from_cnv_file(contents)
BuildFromCnvFile ==
  /\ pc = "text"
  /\ \E perm \in Orders(header, lines) : category_set' = from_cnv_file(header, lines, perm)
  /\ pc' = IF category_set'.status = "ok" THEN "parsed" ELSE "raised"
  /\ UNCHANGED <<header, lines, res, probe, token, token_res>>

NextBuild == BuildFromCnvFile

SpecBuild == InitBuild /\ [][NextBuild]_vars

(***************************************************************************)
(* Properties of the forest from_cnv_file builds                           *)
(***************************************************************************)
\* the idx the data lines declare
DeclaredSet == {DataLines[k].idx : k \in 1..Len(DataLines)}

\* the parent_idx of the merged record of idx i: that of its first line
ParentOf(i) == DataLinesOf(i)[1].parent_idx

\* following the parent references from i leads, within n steps and through declared
\* idx only, to a record whose parent_idx is absent
RECURSIVE Grounded(_, _)
Grounded(i, n) ==
  /\ i \in DeclaredSet
  /\ ParentOf(i) = None \/ (n > 0 /\ Grounded(ParentOf(i), n - 1))

\* decoding raised on none of the lines
AllDecoded(decoded) == \A k \in 1..Len(decoded) : decoded[k].kind # "ValueError"

\* no idx has more than two of the data lines
AtMostTwoEach(data) ==
  \A k \in 1..Len(data) : Cardinality({j \in 1..Len(data) : data[j].idx = data[k].idx}) <= 2

\* the header is accepted, every line decodes and no idx has more than two lines: the
\* records reach tree building
ReachesTreeBuilding ==
  /\ ParseHeader(header).ok
  /\ AllDecoded(DecodeLines(lines, ParseHeader(header).letter_codes))
  /\ AtMostTwoEach(DataLines)

\* the result is the forest of the records whose parent chain ends at a root
ForestOfGrounded ==
  /\ category_set.status = "ok"
  /\ Range(category_set.categories) = {i \in DeclaredSet : ParentOf(i) = None}
  /\ Len(category_set.categories) = Cardinality(Range(category_set.categories))
  /\ DOMAIN Cats = {i \in DeclaredSet : Grounded(i, Cardinality(DeclaredSet))}
  /\ \A n \in DOMAIN Cats :
       /\ Cats[n].parent_idx = ParentOf(n)
       /\ Range(Cats[n].children) = {m \in DOMAIN Cats : Cats[m].parent_idx = n}
       /\ Len(Cats[n].children) = Cardinality(Range(Cats[n].children))

\* C12: tree building terminates and yields an acyclic forest for every list of decoded
\* records, whatever their parent references: the roots are exactly the merged records
\* with absent parent_idx, and a record whose parent chain is cyclic or names an idx no
\* record declares is left out, without looping and without an error being raised.
C12_TreeBuildingYieldsForest ==
  (Returned /\ ReachesTreeBuilding) => ForestOfGrounded

\* the same for the documents whose nesting stays below the interpreter's limit
ShallowTreeBuildingYieldsForest ==
  (Returned /\ ReachesTreeBuilding /\ Len(lines) < RecursionLimit) => ForestOfGrounded

\* a record that names itself as parent is not in the forest
SelfParentLeftOut == \E i \in DeclaredSet : ParentOf(i) = i /\ i \notin DOMAIN Cats

\* two records that name each other as parent are not in the forest
CycleLeftOut ==
  \E i \in DeclaredSet :
    /\ ParentOf(i) # i /\ ParentOf(i) \in DeclaredSet /\ ParentOf(ParentOf(i)) = i
    /\ i \notin DOMAIN Cats /\ ParentOf(i) \notin DOMAIN Cats

\* a record whose parent no line declares is not in the forest
OrphanLeftOut ==
  \E i \in DeclaredSet : ParentOf(i) # None /\ ParentOf(i) \notin DeclaredSet /\ i \notin DOMAIN Cats

\* a forest was built from a document with such records
CyclicOrOrphanLeftOut ==
  /\ pc = "parsed"
  /\ category_set.categories # <<>>
  /\ SelfParentLeftOut \/ CycleLeftOut \/ OrphanLeftOut

\* a document of RecursionLimit categories nested one in the other was parsed
DeepChainParsed == Returned /\ Len(lines) = RecursionLimit

\* the line has a character other than a blank and is not a comment
IsDataLine(l) ==
  LET text == LineText(l)
      marks == {k \in 1..Len(text) : text[k] # " "}
  IN marks # {} /\ \A k \in marks : (\A j \in marks : k <= j) => text[k] # ";"

\* the code-specification columns of the line are blank
BlankSpec(l) == \A k \in 1..Len(l.spec) : l.spec[k] = " "

\* the specification of the line, trailing blanks apart, starts or ends with a comma or
\* has two commas in a row: one of its comma-separated tokens is empty
EmptyToken(l) ==
  LET marks == {k \in 1..Len(l.spec) : l.spec[k] # " "}
      first == 1
      last == CHOOSE k \in marks : \A j \in marks : j <= k
  IN /\ marks # {}
     /\ \/ l.spec[first] = ","
        \/ l.spec[last] = ","
        \/ \E k \in 1..(last - 1) : l.spec[k] = "," /\ l.spec[k + 1] = ","

\* C13: every Category of a forest returned by from_cnv_file has at least one own code
\* or own range: a data line (not blank, not a comment) whose code-specification columns
\* are blank, or whose specification has an empty comma-separated token, makes
\* from_cnv_file raise, so no record with neither codes nor ranges is ever produced.
C13_EveryCategoryHasCodes ==
  Returned =>
    /\ category_set.status = "ok" =>
         \A n \in DOMAIN Cats : Cats[n].codes \cup Cats[n].ranges # {}
    /\ (\E k \in 1..Len(lines) :
          IsDataLine(lines[k]) /\ (BlankSpec(lines[k]) \/ EmptyToken(lines[k])))
         => category_set.status = "ValueError"

\* a document with a data line of blank code columns, or with one that has an empty
\* token, next to a data line that decodes, was refused
C13_Witness ==
  /\ pc = "raised"
  /\ category_set.status = "ValueError"
  /\ \E k \in 1..Len(lines) :
       IsDataLine(lines[k]) /\ (BlankSpec(lines[k]) \/ EmptyToken(lines[k]))
  /\ \E k \in 1..Len(lines) :
       IsDataLine(lines[k]) /\ ~BlankSpec(lines[k]) /\ ~EmptyToken(lines[k])

====
